---- MODULE Spec2Model ----
(***************************************************************************)
(* Model of mapper.py: the call-graph builder of dependency_mapping.        *)
(*                                                                         *)
(* A run of main() is a state machine: the first loop scans one requested  *)
(* path per step (append_graph: NodeCreator walk with import crawling),    *)
(* the second loop runs one EdgeDetector walk per step, output_text ends    *)
(* the run.  An uncaught exception ends the run in pc = "crashed".         *)
(*                                                                         *)
(* Representation.                                                         *)
(*  - A path is the sequence of its components below the working           *)
(*    directory: <<"pkg", "b.py">> is ./pkg/b.py.                          *)
(*  - A syntax tree is a sequence of nodes [kind, name, recv, recvId,      *)
(*    body]; kind is "Import", "ClassDef", "FunctionDef" or "Call".        *)
(*    For a Call, recv tells the shape of node.func: "name" (ast.Name,     *)
(*    callee in name), "attr_name" (ast.Attribute on an ast.Name, the      *)
(*    receiver's id in recvId), "attr_expr" (ast.Attribute on an           *)
(*    expression without id), "other" (neither an id nor a value).         *)
(*  - A FuncNode object is a record; oid is the object's identity.  The    *)
(*    edge sets hold identity triples: Python's set keeps one element per  *)
(*    __eq__/__hash__ class and only the triple of an element is ever read. *)
(*  - ASTParser.graph (one class-level dict shared by every visitor) is    *)
(*    the sequence of its keys in insertion order; in that dict the value  *)
(*    of a key is the key object itself.  search.graph is a sequence of    *)
(*    [key, val] object references into it.                                *)
(***************************************************************************)
EXTENDS Integers, Sequences, FiniteSets, TLC

VARIABLES
    args,            \* search.args: [filename: requested paths, built_ins: flag]
    tree,            \* the source files: path -> syntax tree
    readable,        \* path -> whether open/read/ast.parse of it succeeds
    importable,      \* importlib.import_module: dotted name -> outcome
    pc,              \* "main", "done" or "crashed"
    fi,              \* position of main's first loop in args.filename
    pj,              \* position of main's second loop in search.py_files
    graph,           \* ASTParser.graph
    search_graph,    \* search.graph
    py_files,        \* search.py_files
    searched_files,  \* search.searched_files
    crawled_imports, \* search.crawled_imports
    uncrawled,       \* search.uncrawled
    creator,         \* search.creator: path -> that NodeCreator's _uncrawled
    stdout,          \* what print() wrote before output_text
    report,          \* what output_text printed
    import_log,      \* the calls made to importlib.import_module
    next_oid         \* the next FuncNode object identity

vars == <<args, tree, readable, importable, pc, fi, pj, graph, search_graph,
          py_files, searched_files, crawled_imports, uncrawled, creator,
          stdout, report, import_log, next_oid>>

----------------------------------------------------------------------------
(* Bounds of the model *)

MaxArgs == 2

----------------------------------------------------------------------------
(* Syntax trees *)

Imp(n) == [kind |-> "Import", name |-> n, recv |-> "", recvId |-> "", body |-> <<>>]

Cls(n, b) == [kind |-> "ClassDef", name |-> n, recv |-> "", recvId |-> "", body |-> b]

Def(n, b) == [kind |-> "FunctionDef", name |-> n, recv |-> "", recvId |-> "", body |-> b]

CallName(f) == [kind |-> "Call", name |-> f, recv |-> "name", recvId |-> "", body |-> <<>>]

CallAttr(f, r) == [kind |-> "Call", name |-> f, recv |-> "attr_name", recvId |-> r, body |-> <<>>]

CallExpr(f) == [kind |-> "Call", name |-> f, recv |-> "attr_expr", recvId |-> "", body |-> <<>>]

CallOther == [kind |-> "Call", name |-> "", recv |-> "other", recvId |-> "", body |-> <<>>]

----------------------------------------------------------------------------
(* FuncNode *)

NoAst == [file |-> <<>>, pos |-> <<>>]

\* FuncNode.__init__: a new object, with empty edge sets.
FuncNode(filename, class_name, name, hidden, ast_node, oid) ==
    [filename |-> filename, class_name |-> class_name, name |-> name,
     hidden |-> hidden, ast_node |-> ast_node, oid |-> oid,
     dependencies |-> {}, dependents |-> {}]

\* The tuple FuncNode.__hash__ hashes.
Triple(n) == <<n.filename, n.class_name, n.name>>

\* FuncNode.__eq__ (every object compared here is a FuncNode).
Eq(a, b) ==
    /\ a.filename = b.filename
    /\ a.class_name = b.class_name
    /\ a.name = b.name

is_identifier(n, identifier) ==
    n.filename = identifier \/ n.class_name = identifier \/ n.filename = identifier

\* Mutant of is_hidden: the edge sets are not looked at.
is_hidden_flag_only(n) == n.hidden = TRUE

is_hidden(n) ==
    n.hidden = TRUE /\ Cardinality(n.dependencies) = 0 /\ Cardinality(n.dependents) = 0

\* add_dependency / add_dependent: set.add keeps one element per identity.
add_dependency(n, dependency) ==
    [n EXCEPT !.dependencies = @ \cup {Triple(dependency)}]

\* Mutant of add_dependent: the caller is not recorded on the callee.
add_dependent_dropped(n, dependent) == n

add_dependent(n, dependent) ==
    [n EXCEPT !.dependents = @ \cup {Triple(dependent)}]

----------------------------------------------------------------------------
(* ASTParser: the shared graph *)

\* Position of the key equal to node in dict g, 0 when there is none.
KeyIndex(g, node) ==
    IF \E i \in 1..Len(g) : Eq(g[i], node)
    THEN CHOOSE i \in 1..Len(g) : Eq(g[i], node)
    ELSE 0

\* node in self.graph
Contains(g, node) == KeyIndex(g, node) # 0

\* Mutant of add_node: self.graph[node] = node without the membership test.
add_node_overwrite(g, node) ==
    IF Contains(g, node) THEN [g EXCEPT ![KeyIndex(g, node)] = node] ELSE Append(g, node)

add_node(g, node) ==
    IF ~Contains(g, node) THEN Append(g, node) ELSE g

\* ASTParser.__init__: the fields a visitor derives from its filename.
ASTParser(filename, built_ins, recursive) ==
    [filename |-> filename,
     allow_built_ins |-> built_ins,
     current_filename |-> filename[Len(filename)],
     directory |-> IF recursive = FALSE THEN SubSeq(filename, 1, Len(filename) - 1) ELSE <<>>,
     recursive |-> recursive]

\* self.directory.split(os.sep): the directory string ends with a separator
\* (or is empty), so the split ends with an empty string.
Folders(directory) == directory \o <<"">>

----------------------------------------------------------------------------
(* NodeCreator: the declaration scan and the import crawler.                *)
(* A walk threads the record st: the shared graph, the creator's _imports   *)
(* and _uncrawled sets, the visitor's current_class and current_function,   *)
(* the object counter, the import_module log, and raised: whether an       *)
(* exception is propagating (the rest of the walk is then skipped).        *)

RECURSIVE NodeCreator_visit(_, _, _, _)

\* generic_visit over the children nodes[i..], node k at position pos \o <<k>>.
RECURSIVE NodeCreator_generic_visit(_, _, _, _, _)
NodeCreator_generic_visit(self, nodes, i, pos, st) ==
    IF i > Len(nodes) \/ st.raised
    THEN st
    ELSE NodeCreator_generic_visit(self, nodes, i + 1, pos,
             NodeCreator_visit(self, nodes[i], pos \o <<i>>, st))

add_class_node(self, node, pos, st) ==
    LET current_node == FuncNode(self.current_filename, st.current_class, "__init__",
                                 self.recursive, NoAst, st.next_oid)
        s1 == [st EXCEPT !.graph = add_node(@, current_node), !.next_oid = @ + 1]
    IN  NodeCreator_generic_visit(self, node.body, 1, pos, s1)

add_function_node(self, node, pos, st) ==
    LET current_node == FuncNode(self.current_filename, st.current_class,
                                 st.current_function, self.recursive,
                                 [file |-> self.filename, pos |-> pos], st.next_oid)
        s1 == [st EXCEPT !.graph = add_node(@, current_node), !.next_oid = @ + 1]
    IN  NodeCreator_generic_visit(self, node.body, 1, pos, s1)

\* handle_node(node, "current_class", self.add_class_node)
NodeCreator_visit_ClassDef(self, node, pos, st) ==
    LET old_title == st.current_class
        s1 == add_class_node(self, node, pos, [st EXCEPT !.current_class = node.name])
    IN  [s1 EXCEPT !.current_class = old_title]

\* handle_node(node, "current_function", self.add_function_node)
NodeCreator_visit_FunctionDef(self, node, pos, st) ==
    LET old_title == st.current_function
        s1 == add_function_node(self, node, pos, [st EXCEPT !.current_function = node.name])
    IN  [s1 EXCEPT !.current_function = old_title]

\* The package prefix crawl_import's while loop builds, as a dotted name.
ImportPrefix(folders, folder_index) ==
    SelectSeq(SubSeq(folders, Len(folders) - folder_index + 1, Len(folders) - 1),
              LAMBDA f : f # "")

\* Mutant of crawl_import: when every prefix has failed the ImportError is
\* raised again instead of the name being recorded.
RECURSIVE crawl_import_fatal(_, _, _, _, _)
crawl_import_fatal(self, st, reference, folders, folder_index) ==
    LET imported_name == ImportPrefix(folders, folder_index) \o <<reference>>
        imported == importable[imported_name]
        s0 == [st EXCEPT !.log = Append(@, [unit |-> self.filename, name |-> reference,
                                            imported_name |-> imported_name])]
    IN  CASE imported.t = "ImportError" ->
                IF folder_index < Len(folders)
                THEN crawl_import_fatal(self, s0, reference, folders, folder_index + 1)
                ELSE [s0 EXCEPT !.raised = TRUE]
          [] imported.t = "NoFile" ->
                [s0 EXCEPT !.uncrawled = @ \cup {reference}]
          [] OTHER ->
                IF ~readable[imported.file]
                THEN [s0 EXCEPT !.raised = TRUE]
                ELSE LET visitor == ASTParser(imported.file, TRUE, TRUE)
                         s1 == [s0 EXCEPT !.imports = @ \cup {imported_name},
                                          !.current_class = "",
                                          !.current_function = ""]
                         s2 == NodeCreator_generic_visit(visitor, tree[imported.file],
                                                         1, <<>>, s1)
                     IN  [s2 EXCEPT !.current_class = st.current_class,
                                    !.current_function = st.current_function]

RECURSIVE crawl_import(_, _, _, _, _)
crawl_import(self, st, reference, folders, folder_index) ==
    LET imported_name == ImportPrefix(folders, folder_index) \o <<reference>>
        imported == importable[imported_name]
        s0 == [st EXCEPT !.log = Append(@, [unit |-> self.filename, name |-> reference,
                                            imported_name |-> imported_name])]
    IN  CASE imported.t = "ImportError" ->
                IF folder_index < Len(folders)
                THEN crawl_import(self, s0, reference, folders, folder_index + 1)
                ELSE [s0 EXCEPT !.uncrawled = @ \cup {reference}]
          [] imported.t = "NoFile" ->
                \* imported.__file__ raises AttributeError
                [s0 EXCEPT !.uncrawled = @ \cup {reference}]
          [] OTHER ->
                IF ~readable[imported.file]
                THEN \* neither ImportError nor AttributeError: not caught
                     [s0 EXCEPT !.raised = TRUE]
                ELSE LET visitor == ASTParser(imported.file, TRUE, TRUE)
                         s1 == [s0 EXCEPT !.imports = @ \cup {imported_name},
                                          !.current_class = "",
                                          !.current_function = ""]
                         s2 == NodeCreator_generic_visit(visitor, tree[imported.file],
                                                         1, <<>>, s1)
                     IN  [s2 EXCEPT !.current_class = st.current_class,
                                    !.current_function = st.current_function]

visit_Import(self, node, st) ==
    IF self.recursive = FALSE
    THEN crawl_import(self, st, node.name, Folders(self.directory), 0)
    ELSE st

NodeCreator_visit(self, node, pos, st) ==
    CASE node.kind = "Import" -> visit_Import(self, node, st)
      [] node.kind = "ClassDef" -> NodeCreator_visit_ClassDef(self, node, pos, st)
      [] node.kind = "FunctionDef" -> NodeCreator_visit_FunctionDef(self, node, pos, st)
      [] OTHER -> NodeCreator_generic_visit(self, node.body, 1, pos, st)

----------------------------------------------------------------------------
(* EdgeDetector: the edge resolution walk.  st holds the shared graph, the  *)
(* visitor's current_class and current_function, the object counter and the *)
(* lines printed.                                                           *)

\* dir(__builtins__), as far as the names of the modelled sources go.
Builtins == {"len"}

\* A line of standard output.
Line(text, file, n) == [text |-> text, file |-> file, n |-> n]

\* None, for a variable that holds a FuncNode or None.
NoneNode == FuncNode("", "", "", FALSE, NoAst, 0)

\* Mutant of add_edge: the placeholder of a built-in is named like that of an
\* undeclared callee.
add_edge_unknown(st, is_built_in, dependency, this_node, dependency_node0) ==
    LET placeholder == FuncNode("Unknown", "Unknown", dependency, FALSE, NoAst, st.next_oid)
        dependency_node == IF dependency_node0 = NoneNode THEN placeholder ELSE dependency_node0
        oid1 == IF dependency_node0 = NoneNode THEN st.next_oid + 1 ELSE st.next_oid
        g1 == add_node(st.graph, this_node)
        g2 == add_node(g1, dependency_node)
        g3 == [g2 EXCEPT ![KeyIndex(g2, this_node)] = add_dependency(@, dependency_node)]
        g4 == [g3 EXCEPT ![KeyIndex(g3, dependency_node)] = add_dependent(@, this_node)]
    IN  [st EXCEPT !.graph = g4, !.next_oid = oid1]

\* Adds an edge to the graph.
add_edge(st, is_built_in, dependency, this_node, dependency_node0) ==
    LET placeholder == IF is_built_in = TRUE
                       THEN FuncNode("System", "Builtins", dependency, FALSE, NoAst, st.next_oid)
                       ELSE FuncNode("Unknown", "Unknown", dependency, FALSE, NoAst, st.next_oid)
        dependency_node == IF dependency_node0 = NoneNode THEN placeholder ELSE dependency_node0
        oid1 == IF dependency_node0 = NoneNode THEN st.next_oid + 1 ELSE st.next_oid
        g1 == add_node(st.graph, this_node)
        g2 == add_node(g1, dependency_node)
        g3 == [g2 EXCEPT ![KeyIndex(g2, this_node)] = add_dependency(@, dependency_node)]
        g4 == [g3 EXCEPT ![KeyIndex(g3, dependency_node)] = add_dependent(@, this_node)]
    IN  [st EXCEPT !.graph = g4, !.next_oid = oid1]

\* Mutant of SearchStep: every candidate replaces the one found before it.
SearchStep_last(n, call_ast, dependency, home, acc) ==
    LET a1 == IF n.name = dependency \/ (n.name = "__init__" /\ n.class_name = dependency)
              THEN [acc EXCEPT !.dependency_node = n, !.already_found = TRUE]
              ELSE acc
    IN  IF n.ast_node = call_ast THEN [a1 EXCEPT !.this_node = n] ELSE a1

\* One iteration of visit_Call's loop over the graph: acc holds the loop's
\* variables dependency_node, already_found and this_node.
SearchStep(n, call_ast, dependency, home, acc) ==
    LET a1 == IF n.name = dependency \/ (n.name = "__init__" /\ n.class_name = dependency)
              THEN [acc EXCEPT
                      !.dependency_node =
                          IF acc.already_found = TRUE
                          THEN IF is_identifier(n, home) = TRUE
                                  /\ is_identifier(acc.dependency_node, home) = FALSE
                               THEN n
                               ELSE @
                          ELSE n,
                      !.already_found = TRUE]
              ELSE acc
    IN  IF n.ast_node = call_ast THEN [a1 EXCEPT !.this_node = n] ELSE a1

\* for n in self.graph: ..., from key i on.
RECURSIVE SearchGraph(_, _, _, _, _, _)
SearchGraph(g, i, call_ast, dependency, home, acc) ==
    IF i > Len(g)
    THEN acc
    ELSE SearchGraph(g, i + 1, call_ast, dependency, home,
                     SearchStep(g[i], call_ast, dependency, home, acc))

\* The callee name and the qualifying context of a call (lines 261-270).
CallHome(self, node, st) ==
    CASE node.recv = "attr_name" -> node.recvId
      [] node.recv = "attr_expr" -> st.current_class
      [] OTHER -> self.current_filename

RECURSIVE EdgeDetector_visit(_, _, _, _)

RECURSIVE EdgeDetector_generic_visit(_, _, _, _, _)
EdgeDetector_generic_visit(self, nodes, i, pos, st) ==
    IF i > Len(nodes)
    THEN st
    ELSE EdgeDetector_generic_visit(self, nodes, i + 1, pos,
             EdgeDetector_visit(self, nodes[i], pos \o <<i>>, st))

\* Records actual function calls.
visit_Call(self, node, pos, st) ==
    IF node.recv = "other"
    THEN EdgeDetector_generic_visit(self, node.body, 1, pos,
             [st EXCEPT !.out = Append(@, Line("big error", <<>>, 0))])
    ELSE
    LET dependency == node.name
        home == CallHome(self, node, st)
        is_built_in == dependency \in Builtins
        call_ast == [file |-> self.filename, pos |-> pos]
        found == SearchGraph(st.graph, 1, call_ast, dependency, home,
                             [dependency_node |-> NoneNode, already_found |-> FALSE,
                              this_node |-> NoneNode])
        s1 == IF found.this_node = NoneNode /\ st.current_function = ""
              THEN [st EXCEPT !.current_function = "__main__"]
              ELSE st
        this_node == IF found.this_node = NoneNode
                     THEN FuncNode(self.current_filename, s1.current_class,
                                   s1.current_function, FALSE, call_ast, s1.next_oid)
                     ELSE found.this_node
        s2 == IF found.this_node = NoneNode THEN [s1 EXCEPT !.next_oid = @ + 1] ELSE s1
        s3 == IF is_built_in = FALSE \/ self.allow_built_ins = TRUE
              THEN add_edge(s2, is_built_in, dependency, this_node, found.dependency_node)
              ELSE st
    IN  EdgeDetector_generic_visit(self, node.body, 1, pos, s3)

\* ASTParser.visit_ClassDef: handle_node(node, "current_class", self.generic_visit)
EdgeDetector_visit_ClassDef(self, node, pos, st) ==
    LET old_title == st.current_class
        s1 == EdgeDetector_generic_visit(self, node.body, 1, pos,
                                         [st EXCEPT !.current_class = node.name])
    IN  [s1 EXCEPT !.current_class = old_title]

\* ASTParser.visit_FunctionDef: handle_node(node, "current_function", self.generic_visit)
EdgeDetector_visit_FunctionDef(self, node, pos, st) ==
    LET old_title == st.current_function
        s1 == EdgeDetector_generic_visit(self, node.body, 1, pos,
                                         [st EXCEPT !.current_function = node.name])
    IN  [s1 EXCEPT !.current_function = old_title]

EdgeDetector_visit(self, node, pos, st) ==
    CASE node.kind = "Call" -> visit_Call(self, node, pos, st)
      [] node.kind = "ClassDef" -> EdgeDetector_visit_ClassDef(self, node, pos, st)
      [] node.kind = "FunctionDef" -> EdgeDetector_visit_FunctionDef(self, node, pos, st)
      [] OTHER -> EdgeDetector_generic_visit(self, node.body, 1, pos, st)

----------------------------------------------------------------------------
(* Graph assembly and report *)

\* A reference to the FuncNode object n, as a key or a value of search.graph.
Ref(n) == [oid |-> n.oid, id |-> Triple(n)]

\* The object a reference points to; every object a dict holds is a key of
\* ASTParser.graph.
Deref(g, r) == g[CHOOSE i \in 1..Len(g) : g[i].oid = r.oid]

\* Position of the key equal to the key r in the dict d of references.
RefIndex(d, r) ==
    IF \E i \in 1..Len(d) : d[i].key.id = r.id
    THEN CHOOSE i \in 1..Len(d) : d[i].key.id = r.id
    ELSE 0

\* d[node] = node on a dict of references: an equal key keeps its key object
\* and its place and takes the new value.
DictSet(d, k, v) ==
    IF RefIndex(d, k) # 0
    THEN [d EXCEPT ![RefIndex(d, k)].val = v]
    ELSE Append(d, [key |-> k, val |-> v])

\* {**a, **b} for b the shared graph, folded over b's keys from i on.
RECURSIVE Merge(_, _, _)
Merge(a, b, i) ==
    IF i > Len(b)
    THEN a
    ELSE Merge(DictSet(a, Ref(b[i]), Ref(b[i])), b, i + 1)

\* The lines of output_text's final loop: the keys of search.graph that are
\* not hidden, each with its dependents (the sorting is not modelled).
Listing(sg, g) ==
    {[node |-> sg[i].key.id, edges |-> Deref(g, sg[i].key).dependents] :
        i \in {k \in 1..Len(sg) : is_hidden(Deref(g, sg[k].key)) = FALSE}}

NoReport == [printed |-> FALSE, crawled |-> {}, uncrawled |-> {}, lines |-> {}]

output_text(sg, g) ==
    [printed |-> TRUE,
     crawled |-> IF searched_files # {} THEN crawled_imports ELSE {},
     uncrawled |-> IF searched_files # {} THEN uncrawled ELSE {},
     lines |-> Listing(sg, g)]

\* The NodeCreator walk append_graph starts on found_filename (lines 344-345).
ScanResult(found_filename) ==
    NodeCreator_generic_visit(ASTParser(found_filename, FALSE, FALSE),
        tree[found_filename], 1, <<>>,
        [graph |-> graph, imports |-> crawled_imports, uncrawled |-> {},
         current_class |-> "", current_function |-> "", next_oid |-> next_oid,
         raised |-> FALSE, log |-> import_log])

\* The EdgeDetector walk main starts on file (lines 457-458).
DetectResult(file) ==
    EdgeDetector_generic_visit(ASTParser(file, args.built_ins, FALSE),
        tree[file], 1, <<>>,
        [graph |-> graph, current_class |-> "", current_function |-> "",
         next_oid |-> next_oid, out |-> stdout])

----------------------------------------------------------------------------
(* The inputs of a run: the source files, the importable modules and the   *)
(* command line.                                                           *)

PA == <<"a.py">>

PB == <<"pkg", "sub", "b.py">>

PC == <<"pkg", "sub", "a.py">>

\* A requested path that is no file.
Missing == <<"nope.py">>

Files == {PA, PB, PC}

\* A module that declares g and calls nothing.
TLib == <<Def("g", <<>>)>>

\* f calls g, declared elsewhere, and itself.
TCaller == <<Imp("b"), Def("f", <<CallName("g"), CallName("f")>>)>>

\* Two types with a method of the same name, called through receivers.
TTypes ==
    <<Imp("a"),
      Cls("T1", <<Def("run", <<>>)>>),
      Cls("T2", <<Def("run", <<CallExpr("run")>>)>>),
      CallAttr("run", "obj")>>

\* Top-level code: a built-in, an undeclared callee, a call that is no name.
TTop ==
    <<CallName("len"), CallName("zz"),
      Def("h", <<CallName("zz"), CallName("len")>>),
      CallOther>>

\* Imports that do not resolve, then a declaration that constructs and calls.
TUnres ==
    <<Imp("zz"), Imp("sys"),
      Def("g", <<CallName("T1"), CallAttr("run", "T2")>>)>>

TreesOf(p) ==
    CASE p = PA -> {TLib, TCaller, TTop}
      [] p = PB -> {TLib, TTypes, TUnres}
      [] OTHER -> {TLib, TCaller}

ImportNames == {"a", "b", "zz", "sys"}

DottedNames ==
    {pre \o <<n>> : pre \in {<<>>, <<"sub">>, <<"pkg", "sub">>}, n \in ImportNames}

ImportError == [t |-> "ImportError", file |-> <<>>]

NoFile == [t |-> "NoFile", file |-> <<>>]

Found(p) == [t |-> "file", file |-> p]

\* An installation in which the dotted name d is module m; sys is built in
\* (it has no __file__); every other name raises ImportError.
Env(d, m) ==
    [n \in DottedNames |->
        IF n = d THEN m ELSE IF n = <<"sys">> THEN NoFile ELSE ImportError]

Envs ==
    {Env(<<"zz">>, ImportError),
     Env(<<"b">>, Found(PB)),
     Env(<<"a">>, Found(PA)),
     Env(<<"pkg", "sub", "a">>, Found(PC))}

\* The files import_module can resolve to.
Targets(env) == {env[n].file : n \in {d \in DottedNames : env[d].t = "file"}}

\* search.creator[p] before append_graph made a NodeCreator for p.
NoCreator == [made |-> FALSE, uncrawled |-> {}]

\* The sequences over S of length at most n.
SeqsUpTo(S, n) == UNION {[1..k -> S] : k \in 0..n}

Range(f) == {f[i] : i \in DOMAIN f}

Init ==
    /\ args \in [filename : SeqsUpTo(Files \cup {Missing}, MaxArgs), built_ins : BOOLEAN]
    /\ importable \in Envs
    \* a file that is neither requested nor importable is never opened
    /\ tree \in {t \in [Files -> UNION {TreesOf(p) : p \in Files}] :
                   \A p \in Files :
                       /\ t[p] \in TreesOf(p)
                       /\ p \notin Range(args.filename) \cup Targets(importable) => t[p] = TLib}
    /\ readable \in {r \in [Files -> BOOLEAN] :
                       /\ Cardinality({p \in Files : ~r[p]}) <= 1
                       /\ \A p \in Files :
                            p \notin Range(args.filename) \cup Targets(importable) => r[p]}
    /\ pc = "main"
    /\ fi = 1
    /\ pj = 1
    /\ graph = <<>>
    /\ search_graph = <<>>
    /\ py_files = <<>>
    /\ searched_files = {}
    /\ crawled_imports = {}
    /\ uncrawled = {}
    /\ creator = [p \in Files |-> NoCreator]
    /\ stdout = <<>>
    /\ report = NoReport
    /\ import_log = <<>>
    /\ next_oid = 1

----------------------------------------------------------------------------
(* main *)

\* os.path.isfile(filename)
isfile(filename) == filename \in Files

\* First loop, a path that is a file: append_graph and the assignment of its
\* result to search.graph.  An exception leaves main.
ScanFile ==
    /\ pc = "main"
    /\ fi <= Len(args.filename)
    /\ isfile(args.filename[fi])
    /\ LET filename == args.filename[fi]
           st == ScanResult(filename)
       IN  /\ searched_files' = searched_files \cup {filename}
           /\ IF ~readable[filename]
              THEN \* ast.parse(open(found_filename).read()) raises
                   /\ pc' = "crashed"
                   /\ UNCHANGED <<fi, graph, search_graph, py_files, crawled_imports,
                                  creator, stdout, import_log, next_oid>>
              ELSE /\ graph' = st.graph
                   /\ creator' = [creator EXCEPT ![filename] =
                                     [made |-> TRUE, uncrawled |-> st.uncrawled]]
                   \* the creator's _imports is the set search.crawled_imports
                   /\ crawled_imports' = st.imports
                   /\ import_log' = st.log
                   /\ next_oid' = st.next_oid
                   /\ IF st.raised
                      THEN /\ pc' = "crashed"
                           /\ UNCHANGED <<fi, search_graph, py_files, stdout>>
                      ELSE /\ pc' = pc
                           /\ fi' = fi + 1
                           /\ stdout' = Append(stdout, Line("Len: ", <<>>, Cardinality(uncrawled)))
                           /\ py_files' = Append(py_files, filename)
                           /\ search_graph' = Merge(search_graph, st.graph, 1)
    \* set.union returns a new set: search.uncrawled is not updated
    /\ uncrawled' = uncrawled
    /\ UNCHANGED <<args, tree, readable, importable, pj, report>>

\* First loop, a path that is neither a directory nor a file.
ScanNotFound ==
    /\ pc = "main"
    /\ fi <= Len(args.filename)
    /\ ~isfile(args.filename[fi])
    /\ stdout' = Append(stdout, Line("Error: Could not find", args.filename[fi], 0))
    /\ fi' = fi + 1
    /\ UNCHANGED <<args, tree, readable, importable, pc, pj, graph, search_graph,
                   py_files, searched_files, crawled_imports, uncrawled, creator,
                   report, import_log, next_oid>>

\* Mutant of DetectEdges: the walk of a scanned file does not wait for the
\* first loop to end.
DetectEdges_early ==
    /\ pc = "main"
    /\ pj <= Len(py_files)
    /\ LET st == DetectResult(py_files[pj])
       IN  /\ graph' = st.graph
           /\ next_oid' = st.next_oid
           /\ stdout' = st.out
           /\ search_graph' = Merge(search_graph, st.graph, 1)
    /\ pj' = pj + 1
    /\ UNCHANGED <<args, tree, readable, importable, pc, fi, py_files, searched_files,
                   crawled_imports, uncrawled, creator, report, import_log>>

\* Second loop: one EdgeDetector walk and the merge of its graph.
DetectEdges ==
    /\ pc = "main"
    /\ fi > Len(args.filename)
    /\ pj <= Len(py_files)
    /\ LET st == DetectResult(py_files[pj])
       IN  /\ graph' = st.graph
           /\ next_oid' = st.next_oid
           /\ stdout' = st.out
           /\ search_graph' = Merge(search_graph, st.graph, 1)
    /\ pj' = pj + 1
    /\ UNCHANGED <<args, tree, readable, importable, pc, fi, py_files, searched_files,
                   crawled_imports, uncrawled, creator, report, import_log>>

\* output_text(search), the end of main.
OutputText ==
    /\ pc = "main"
    /\ fi > Len(args.filename)
    /\ pj > Len(py_files)
    /\ report' = output_text(search_graph, graph)
    /\ pc' = "done"
    /\ UNCHANGED <<args, tree, readable, importable, fi, pj, graph, search_graph,
                   py_files, searched_files, crawled_imports, uncrawled, creator,
                   stdout, import_log, next_oid>>

Next ==
    \/ ScanFile
    \/ ScanNotFound
    \/ DetectEdges
    \/ OutputText

Spec == Init /\ [][Next]_vars

----------------------------------------------------------------------------
(* Vocabulary of the properties *)

\* The identity triples of the nodes of a graph.
Ids(g) == {Triple(g[i]) : i \in 1..Len(g)}

\* The canonical node of identity t.
NodeOf(g, t) == g[CHOOSE i \in 1..Len(g) : Triple(g[i]) = t]

\* The function-like declarations of a tree, as <<enclosing type or "", name>>.
RECURSIVE DeclsIn(_, _)
DeclsIn(nodes, cls) ==
    UNION {IF nodes[i].kind = "FunctionDef"
           THEN {<<cls, nodes[i].name>>} \cup DeclsIn(nodes[i].body, cls)
           ELSE IF nodes[i].kind = "ClassDef"
           THEN DeclsIn(nodes[i].body, nodes[i].name)
           ELSE DeclsIn(nodes[i].body, cls) : i \in 1..Len(nodes)}

\* The type-like declarations of a tree.
RECURSIVE ClassesIn(_)
ClassesIn(nodes) ==
    UNION {(IF nodes[i].kind = "ClassDef" THEN {nodes[i].name} ELSE {})
           \cup ClassesIn(nodes[i].body) : i \in 1..Len(nodes)}

\* The nodes of kind k of a tree, at any depth.
RECURSIVE NodesIn(_, _)
NodesIn(nodes, k) ==
    UNION {(IF nodes[i].kind = k THEN {nodes[i]} ELSE {})
           \cup NodesIn(nodes[i].body, k) : i \in 1..Len(nodes)}

\* The names a call can resolve to in a tree: its callables and its types.
DeclaredNames(t) == {d[2] : d \in DeclsIn(t, "")} \cup ClassesIn(t)

\* The unit name of a path.
BaseName(p) == p[Len(p)]

\* The files whose declarations the first loop has registered so far.
ScannedUnits == Range(py_files) \cup {n.file : n \in {importable[d] : d \in crawled_imports}}

\* Whether the identity t can be the target of a call to the name c.
Resolves(t, c) == t[3] = c \/ (t[3] = "__init__" /\ t[2] = c)

FirstLoopDone == fi > Len(args.filename)

\* The requested paths that are files.
RequestedFiles == Range(args.filename) \cap Files

----------------------------------------------------------------------------
(* C1 *)

\* C1: edge symmetry.  In every state, for all canonical nodes A and B of the
\* graph, B is in A.dependencies iff A is in B.dependents, and every element
\* of an edge set is the identity of a node of the graph: no one-sided edge.
C1_EdgeSymmetry ==
    /\ \A i, j \in 1..Len(graph) :
          Triple(graph[j]) \in graph[i].dependencies
              <=> Triple(graph[i]) \in graph[j].dependents
    /\ \A i \in 1..Len(graph) :
          graph[i].dependencies \cup graph[i].dependents \subseteq Ids(graph)

\* A finished run whose graph holds a self-loop, an edge to a placeholder and
\* an edge from a synthesized "__main__" caller.
C1_Witness ==
    /\ pc = "done"
    /\ \E i \in 1..Len(graph) : Triple(graph[i]) \in graph[i].dependencies
    /\ \E i \in 1..Len(graph) :
          /\ graph[i].name = "__main__"
          /\ \E t \in graph[i].dependencies : t[1] = "Unknown"

----------------------------------------------------------------------------
(* C2 *)

NoDuplicateKeys(g) ==
    \A i, j \in 1..Len(g) : Eq(g[i], g[j]) <=> i = j

\* C2: deduplication by identity is idempotent.  No step leaves two keys of
\* equal (filename, class, name) in ASTParser.graph or in search.graph, and
\* two keys are equal only if they are the same key; every step keeps each
\* stored node's object, identity and secondary flag and only adds to its
\* edge sets; a declaration scan leaves every node already stored exactly as
\* it was; scanning a file a second time leaves both dicts unchanged; and
\* merging the shared graph into search.graph once more changes nothing.
C2_IdempotentDedup ==
    [][/\ NoDuplicateKeys(graph')
       /\ \A i, j \in 1..Len(search_graph') :
             search_graph'[i].key.id = search_graph'[j].key.id => i = j
       /\ Len(graph') >= Len(graph)
       /\ \A i \in 1..Len(graph) :
             /\ graph'[i].oid = graph[i].oid
             /\ Triple(graph'[i]) = Triple(graph[i])
             /\ graph'[i].hidden = graph[i].hidden
             /\ graph'[i].ast_node = graph[i].ast_node
             /\ graph[i].dependencies \subseteq graph'[i].dependencies
             /\ graph[i].dependents \subseteq graph'[i].dependents
       /\ (fi' # fi \/ pc' = "crashed") =>
             \A i \in 1..Len(graph) : graph'[i] = graph[i]
       /\ (fi' # fi /\ args.filename[fi] \in Range(py_files)) =>
             graph' = graph /\ search_graph' = search_graph
       /\ pc' = "main" =>
             /\ Merge(search_graph', graph', 1) = search_graph'
             /\ \A i \in 1..Len(search_graph') :
                   /\ search_graph'[i].key = search_graph'[i].val
                   /\ \E k \in 1..Len(graph') : Ref(graph'[k]) = search_graph'[i].key
      ]_vars

\* A finished run that scanned and edge-resolved the same file twice and
\* whose graph holds edges.
C2_Witness ==
    /\ pc = "done"
    /\ \E i, j \in 1..Len(py_files) : i < j /\ py_files[i] = py_files[j]
    /\ \E i \in 1..Len(graph) : graph[i].dependencies # {}

----------------------------------------------------------------------------
(* C3 *)

\* The callee names of the calls of a tree that pass the built-in gate.
CalledNames(t) ==
    {c.name : c \in {n \in NodesIn(t, "Call") :
                        n.recv # "other" /\ (n.name \notin Builtins \/ args.built_ins)}}

\* C3: two phases, strictly ordered.  As soon as an EdgeDetector walk has
\* started or an edge exists, the first loop has ended and every requested
\* file has been scanned; hence no "Unknown" placeholder ever stands for a
\* name that a scanned or crawled unit declares, and after the run every call
\* of a scanned unit to such a name has an edge from that unit to a declared
\* node, recorded in both directions.
C3_TwoPhases ==
    /\ (pj > 1 \/ \E i \in 1..Len(graph) : graph[i].dependencies # {}) =>
          /\ FirstLoopDone
          /\ \A p \in RequestedFiles :
                p \in Range(py_files) /\ creator[p].made
    /\ \A i \in 1..Len(graph) :
          graph[i].filename = "Unknown" =>
              \A u \in RequestedFiles \cup ScannedUnits :
                  graph[i].name \notin DeclaredNames(tree[u])
    /\ pc = "done" =>
          \A u \in Range(py_files) : \A c \in CalledNames(tree[u]) :
              (\E v \in ScannedUnits : c \in DeclaredNames(tree[v])) =>
                  \E i \in 1..Len(graph) : \E t \in graph[i].dependencies :
                      /\ graph[i].filename = BaseName(u)
                      /\ Resolves(t, c)
                      /\ t[1] \notin {"Unknown", "System"}
                      /\ Triple(graph[i]) \in NodeOf(graph, t).dependents

\* A finished run in which f of the first requested file calls g, declared
\* only in the second requested file, which no import reached.
C3_Witness ==
    /\ pc = "done"
    /\ py_files = <<PA, PB>>
    /\ crawled_imports = {}
    /\ \E i \in 1..Len(graph) :
          /\ Triple(graph[i]) = <<"a.py", "", "f">>
          /\ <<"b.py", "", "g">> \in graph[i].dependencies

----------------------------------------------------------------------------
(* Call sites.  C4, C5 and C10 speak of single call expressions: they are    *)
(* stated of visit_Call applied, in every state of the second loop, to      *)
(* every call of ProbeCalls in every context of ProbeContexts.              *)

ProbeCalls ==
    {CallName("g"), CallName("f"), CallName("T1"), CallName("len"), CallName("zz"),
     CallAttr("run", "obj"), CallAttr("run", "T2"), CallAttr("g", "b.py"), CallExpr("run")}

\* The pairs <<current_class, current_function>> an EdgeDetector can stand
\* in while it walks a tree; after a call at the top of a scope
\* current_function stays "__main__".
RECURSIVE ContextsIn(_, _, _)
ContextsIn(nodes, cls, fn) ==
    {<<cls, fn>>} \cup (IF fn = "" THEN {<<cls, "__main__">>} ELSE {}) \cup
    UNION {IF nodes[i].kind = "ClassDef"
           THEN ContextsIn(nodes[i].body, nodes[i].name, fn)
           ELSE IF nodes[i].kind = "FunctionDef"
           THEN ContextsIn(nodes[i].body, cls, nodes[i].name)
           ELSE {} : i \in 1..Len(nodes)}

\* The EdgeDetector of the second loop that is about to walk its file (after
\* the last walk and before the report: the one that walked last), standing
\* anywhere in that file's tree, on the graph as it is.
ProbeContexts ==
    IF pc # "main" \/ ~FirstLoopDone \/ py_files = <<>>
    THEN {}
    ELSE LET p == py_files[IF pj <= Len(py_files) THEN pj ELSE Len(py_files)]
         IN  {[self |-> ASTParser(p, args.built_ins, FALSE),
               st |-> [graph |-> graph, current_class |-> x[1], current_function |-> x[2],
                       next_oid |-> next_oid, out |-> stdout]] :
                 x \in ContextsIn(tree[p], "", "")}

\* Two positions at which no tree has a node: two distinct call sites.
ProbePos == <<0>>

\* The keys of g a call to the name c can resolve to, by position.
Candidates(g, c) == {i \in 1..Len(g) : Resolves(Triple(g[i]), c)}

Least(S) == CHOOSE i \in S : \A k \in S : i <= k

\* The edges <<caller, callee>> of a graph, as the dependencies record them
\* and as the dependents record them.
Edges(g) == UNION {{<<Triple(g[i]), t>> : t \in g[i].dependencies} : i \in 1..Len(g)}

BackEdges(g) == UNION {{<<t, Triple(g[i])>> : t \in g[i].dependents} : i \in 1..Len(g)}

\* The identity of the caller node of a call made in context x.
CallerId(x) ==
    <<x.self.current_filename, x.st.current_class,
      IF x.st.current_function = "" THEN "__main__" ELSE x.st.current_function>>

PassesGate(x, c) == c.name \notin Builtins \/ x.self.allow_built_ins

----------------------------------------------------------------------------
(* C4 *)

\* C4: a call that passes the built-in gate and has a candidate records
\* exactly one edge, in both directions, from its caller to the first
\* candidate in graph order whose is_identifier(qualifying context) is true,
\* or to the first candidate when there is none; no node is made for the
\* callee.
C4_OneTarget ==
    \A x \in ProbeContexts : \A c \in ProbeCalls :
        (PassesGate(x, c) /\ Candidates(graph, c.name) # {}) =>
            LET home == CallHome(x.self, c, x.st)
                good == {i \in Candidates(graph, c.name) : is_identifier(graph[i], home)}
                target == IF good # {} THEN graph[Least(good)]
                          ELSE graph[Least(Candidates(graph, c.name))]
                r == visit_Call(x.self, c, ProbePos, x.st)
            IN  /\ Edges(r.graph) = Edges(graph) \cup {<<CallerId(x), Triple(target)>>}
                /\ BackEdges(r.graph) = BackEdges(graph) \cup {<<CallerId(x), Triple(target)>>}
                /\ Ids(r.graph) = Ids(graph) \cup {CallerId(x)}

\* A finished run in which a call with two candidates went to the second one,
\* whose type is the qualifying context, and another call with the same two
\* candidates, neither of them qualified, went to the first.
C4_Witness ==
    /\ pc = "done"
    /\ \E i, j \in 1..Len(graph) :
          /\ i < j
          /\ Triple(graph[i]) = <<"b.py", "T1", "run">>
          /\ Triple(graph[j]) = <<"b.py", "T2", "run">>
          /\ graph[j].dependencies = {Triple(graph[j])}
          /\ graph[i].dependents = {<<"b.py", "", "__main__">>}
          /\ graph[j].dependents = {Triple(graph[j])}

----------------------------------------------------------------------------
(* C5 *)

PlaceholderId(c) ==
    IF c.name \in Builtins THEN <<"System", "Builtins", c.name>>
    ELSE <<"Unknown", "Unknown", c.name>>

\* C5: the built-in gate and the placeholders.  Of a call without candidate:
\* when the callee is a built-in and built-ins are not included, visit_Call
\* changes nothing; otherwise the graph then holds exactly one node
\* ("System", "Builtins", name) for a built-in, ("Unknown", "Unknown", name)
\* for any other callee, with the edge from the caller in both directions.
\* Of a call whose only candidate is the placeholder an earlier call left in
\* the graph: it makes no second node and its edge goes to that same object.
\* In a run without built-ins the graph never holds a "System" node.
C5_BuiltinGate ==
    /\ args.built_ins = FALSE => \A i \in 1..Len(graph) : graph[i].filename # "System"
    /\ \A x \in ProbeContexts : \A c \in ProbeCalls :
          LET r == visit_Call(x.self, c, ProbePos, x.st)
              ph == PlaceholderId(c)
              cand == Candidates(graph, c.name)
          IN  /\ (cand = {} /\ ~PassesGate(x, c)) => r = x.st
              /\ (cand = {} /\ PassesGate(x, c)) =>
                    /\ Cardinality({i \in 1..Len(r.graph) : Triple(r.graph[i]) = ph}) = 1
                    /\ Ids(r.graph) = Ids(graph) \cup {CallerId(x), ph}
                    /\ <<CallerId(x), ph>> \in Edges(r.graph)
                    /\ <<CallerId(x), ph>> \in BackEdges(r.graph)
              /\ (cand # {} /\ PassesGate(x, c) /\ \A i \in cand : Triple(graph[i]) = ph) =>
                    /\ Cardinality({i \in 1..Len(r.graph) : Triple(r.graph[i]) = ph}) = 1
                    /\ NodeOf(r.graph, ph).oid = NodeOf(graph, ph).oid
                    /\ NodeOf(r.graph, ph).dependents =
                           NodeOf(graph, ph).dependents \cup {CallerId(x)}
                    /\ <<CallerId(x), ph>> \in Edges(r.graph)

\* A finished run with built-ins included in which the built-in len and the
\* undeclared zz were each called from two callers: one placeholder each.
C5_Witness ==
    /\ pc = "done"
    /\ args.built_ins = TRUE
    /\ \E i, j \in 1..Len(graph) :
          /\ Triple(graph[i]) = <<"System", "Builtins", "len">>
          /\ Cardinality(graph[i].dependents) = 2
          /\ Triple(graph[j]) = <<"Unknown", "Unknown", "zz">>
          /\ Cardinality(graph[j].dependents) = 2

----------------------------------------------------------------------------
(* C6 *)

\* The identities of the function-like declarations of the file u.
DeclIds(u) == {<<BaseName(u), d[1], d[2]>> : d \in DeclsIn(tree[u], "")}

\* C6: a callable declared in a requested unit is never secondary.  After
\* the run, for every function-like declaration of every scanned requested
\* file, the canonical node is not secondary and output_text lists it.
C6_RequestedNotSecondary ==
    pc = "done" =>
        \A u \in Range(py_files) : \A t \in DeclIds(u) :
            /\ t \in Ids(graph)
            /\ \A i \in 1..Len(graph) : Triple(graph[i]) = t => graph[i].hidden = FALSE
            /\ t \in {l.node : l \in report.lines}

----------------------------------------------------------------------------
(* C7 *)

\* The identities output_text would list.
Listed(sg, g) == {l.node : l \in Listing(sg, g)}

\* C7: the hidden-node rule.  After every step, a key of search.graph is
\* left out of the listing iff it is secondary and both its edge sets are
\* empty; a node that any stored edge names, as caller or as callee, has the
\* edge on its canonical object and is listed; and a node once listed stays
\* listed.
C7_HiddenRule ==
    [][/\ \A i \in 1..Len(search_graph') :
             LET n == Deref(graph', search_graph'[i].key)
             IN  search_graph'[i].key.id \notin Listed(search_graph', graph')
                     <=> (n.hidden /\ n.dependencies = {} /\ n.dependents = {})
       /\ \A i \in 1..Len(graph') :
             \A t \in graph'[i].dependencies \cup graph'[i].dependents :
                 /\ t \in Ids(graph')
                 /\ NodeOf(graph', t).dependencies \cup NodeOf(graph', t).dependents # {}
                 /\ (\E k \in 1..Len(search_graph') : search_graph'[k].key.id = t)
                        => t \in Listed(search_graph', graph')
       /\ Listed(search_graph, graph) \subseteq Listed(search_graph', graph')
      ]_vars

\* A finished run whose report lists a secondary node that an edge names and
\* leaves out a secondary node that no edge names.
C7_Witness ==
    /\ pc = "done"
    /\ \E i, j \in 1..Len(graph) :
          /\ graph[i].hidden /\ graph[i].dependents # {}
          /\ Triple(graph[i]) \in {l.node : l \in report.lines}
          /\ graph[j].hidden /\ graph[j].dependents = {} /\ graph[j].dependencies = {}
          /\ Triple(graph[j]) \notin {l.node : l \in report.lines}
          /\ \E k \in 1..Len(search_graph) : search_graph[k].key.id = Triple(graph[j])

----------------------------------------------------------------------------
(* C8 *)

\* The number of import statements of the module n in a tree.
RECURSIVE CountImports(_, _, _)
CountImports(nodes, i, n) ==
    IF i > Len(nodes)
    THEN 0
    ELSE (IF nodes[i].kind = "Import" /\ nodes[i].name = n THEN 1 ELSE 0)
         + CountImports(nodes[i].body, 1, n) + CountImports(nodes, i + 1, n)

\* Every dotted name the module n can be tried under raises ImportError.
Unresolvable(n) ==
    \A d \in DottedNames : d[Len(d)] = n => importable[d].t = "ImportError"

\* No import of the file u resolves to a source file.
NoImportResolves(u) ==
    \A m \in NodesIn(tree[u], "Import") : \A d \in DottedNames :
        d[Len(d)] = m.name => importable[d].t # "file"

\* The calls of import_module a step made for the module n on behalf of u.
NewAttempts(u, n) ==
    {k \in (Len(import_log) + 1)..Len(import_log') :
        import_log'[k].unit = u /\ import_log'[k].name = n}

\* The step is the scan of the readable requested file u.
ScanStepOf(u) ==
    /\ pc = "main" /\ ~FirstLoopDone
    /\ u = args.filename[fi]
    /\ isfile(u) /\ readable[u]
    /\ (fi' # fi \/ pc' # pc)

\* What C8 says of a scan of u, with limit(u) attempts allowed per import
\* statement: the scan ends without exception, the unresolvable names are in
\* the creator's unresolved set, and every declaration of u is in the graph.
UnresolvedNotFatal(u, limit(_)) ==
    (ScanStepOf(u) /\ NoImportResolves(u)) =>
        /\ pc' = "main" /\ fi' = fi + 1
        /\ py_files' = Append(py_files, u)
        /\ DeclIds(u) \subseteq Ids(graph')
        /\ \A c \in ClassesIn(tree[u]) : <<BaseName(u), c, "__init__">> \in Ids(graph')
        /\ \A m \in NodesIn(tree[u], "Import") :
              Unresolvable(m.name) =>
                  /\ m.name \in creator'[u].uncrawled
                  /\ Cardinality(NewAttempts(u, m.name)) >= 1
                  /\ Cardinality(NewAttempts(u, m.name))
                         <= CountImports(tree[u], 1, m.name) * limit(u)

\* The directory segments of the file u.
Segments(u) == SubSeq(u, 1, Len(u) - 1)

\* C8, as amended: an unresolvable import is never fatal.  When no import
\* of a requested unit resolves, its scan ends normally after at most one
\* import_module call per element of folders plus one for each import
\* statement (folders = directory.split(os.sep): the directory segments and
\* a final empty string, so segments + 2 calls), every module that every
\* attempt failed for is in that creator's unresolved set, and every
\* declaration of the unit is in the graph.
C8_UnresolvedNotFatal ==
    [][\A u \in Files :
          UnresolvedNotFatal(u, LAMBDA v : Len(Folders(Segments(v))) + 1)]_vars

\* C8 as stated: at most one attempt per directory segment plus one.
C8_AsStated ==
    [][\A u \in Files :
          UnresolvedNotFatal(u, LAMBDA v : Len(Segments(v)) + 1)]_vars

\* The scan of pkg/sub/b.py went through import zz, tried under every prefix,
\* and registered the declaration that follows it.
C8_Witness ==
    /\ PB \in Range(py_files)
    /\ "zz" \in creator[PB].uncrawled
    /\ \E k \in 1..Len(import_log) :
          import_log[k].unit = PB /\ import_log[k].imported_name = <<"pkg", "sub", "zz">>
    /\ <<"b.py", "", "g">> \in Ids(graph)

----------------------------------------------------------------------------
(* C9 *)

\* C9: unreadable or malformed source is skipped, not fatal.  No run ends in
\* an exception, and a finished run has scanned every readable requested
\* file and printed its report.
C9_UnreadableSkipped ==
    /\ pc # "crashed"
    /\ pc = "done" =>
          /\ report.printed
          /\ \A p \in RequestedFiles : readable[p] => p \in Range(py_files)

----------------------------------------------------------------------------
(* C10 *)

\* The candidates of the call c made in context x agree on is_identifier of
\* the qualifying context, and there are at least two of them.
Ambiguous(x, c) ==
    LET cand == Candidates(graph, c.name)
        home == CallHome(x.self, c, x.st)
    IN  /\ Cardinality(cand) >= 2
        /\ \A i, j \in cand :
              is_identifier(graph[i], home) = is_identifier(graph[j], home)

\* C10: an ambiguous resolution emits a diagnostic: visit_Call prints a line
\* for every call that passes the gate and is ambiguous.
C10_AmbiguityLogged ==
    \A x \in ProbeContexts : \A c \in ProbeCalls :
        (PassesGate(x, c) /\ Ambiguous(x, c)) =>
            Len(visit_Call(x.self, c, ProbePos, x.st).out) > Len(stdout)

----------------------------------------------------------------------------
(* C11 *)

\* The dotted names the scan of u recorded as crawled: the import_module
\* calls made for u that returned a module whose source file was parsed.
CrawledBy(u) ==
    {import_log[k].imported_name : k \in
        {j \in 1..Len(import_log) :
            /\ import_log[j].unit = u
            /\ importable[import_log[j].imported_name].t = "file"
            /\ readable[importable[import_log[j].imported_name].file]}}

\* Every name a finished scan recorded as crawled is in search.crawled_imports.
CrawledComplete ==
    \A u \in Range(py_files) : CrawledBy(u) \subseteq crawled_imports

\* Every name a finished scan recorded as unresolved is in search.uncrawled.
UncrawledComplete ==
    \A u \in Range(py_files) : creator[u].uncrawled \subseteq uncrawled

\* C11: the shared import accumulators read by the report are complete.
\* After append_graph has scanned a unit, the names that scan recorded as
\* crawled are in search.crawled_imports and the names it recorded as
\* unresolved are in search.uncrawled; the two sets output_text prints hold
\* the crawled and the unresolved imports of every requested unit.
C11_AccumulatorsComplete ==
    /\ CrawledComplete
    /\ UncrawledComplete
    /\ report.printed =>
          \A u \in Range(py_files) :
              /\ CrawledBy(u) \subseteq report.crawled
              /\ creator[u].uncrawled \subseteq report.uncrawled

====
